---- MODULE Spec2Model ----
(***************************************************************************)
(* Model of container_backup.py: the backup of Azure blob containers with  *)
(* azcopy.  Strings are TLA+ strings; the remote destination account is   *)
(* the set of container names it holds; the wall clock is a datetime      *)
(* record that may advance between any two steps of main.                 *)
(***************************************************************************)
EXTENDS Integers, Sequences, FiniteSets, TLC

VARIABLES
    pc,                               \* position of main
    runtime_args,                     \* parse_runtime_args(): [quiet, verbose]
    config,                           \* the loaded config.yaml
    azcopy_available,                 \* does `type azcopy` succeed in this environment
    containers,                       \* names of the containers of the destination account
    now,                              \* the wall clock
    ticks,                            \* minutes the wall clock has advanced since the start
    datetimeobj,                      \* default argument of generate_destination_container_name
    i,                                \* number of source containers the for loop has taken
    destination_container_name,
    destination_container_name_tiny,
    count,
    log_directory_path,               \* "" until the log directory has been made
    logpath,
    files,                            \* log files on disk: <<path, k>> = path holds the output of copy k
    stdout,                           \* lines printed by the script
    exit_status,                      \* <<>> while running, <<status>> once the process has ended
    error,                            \* what ended the process abnormally, "" if nothing
    events,                           \* history of remote calls, file operations and subprocesses
    generated_late                    \* history: a name was generated after the clock left the starting minute

vars == <<pc, runtime_args, config, azcopy_available, containers, now, ticks, datetimeobj, i,
          destination_container_name, destination_container_name_tiny, count,
          log_directory_path, logpath, files, stdout, exit_status, error, events,
          generated_late>>

----------------------------------------------------------------------------
(* Bounds of the model *)

MaxContainers == 2      \* longest configured list of source containers
MaxExisting == 1        \* most containers present in the destination account before the run
MaxProbe == 1           \* pre-existing containers are among the first MaxProbe + 1 candidates of a source
MaxTicks == 1           \* minutes the wall clock may advance during a run

----------------------------------------------------------------------------
(* Program constants *)

MAX_CONTAINER_CHARS == 63

----------------------------------------------------------------------------
(* String helpers: Python's str(int), zero padded formats and slicing *)

Digits == <<"0", "1", "2", "3", "4", "5", "6", "7", "8", "9">>

RECURSIVE str(_)
str(n) == IF n < 10 THEN Digits[n + 1] ELSE str(n \div 10) \o Digits[(n % 10) + 1]

RECURSIVE zfill(_, _)
zfill(s, width) == IF Len(s) >= width THEN s ELSE zfill("0" \o s, width)

Slice(s, n) == IF Len(s) <= n THEN s ELSE SubSeq(s, 1, n)

RECURSIVE Repeat(_, _)
Repeat(s, n) == IF n = 0 THEN "" ELSE s \o Repeat(s, n - 1)

strftime(dt) ==
    zfill(str(dt.year), 4) \o zfill(str(dt.month), 2) \o zfill(str(dt.day), 2)
        \o "-" \o zfill(str(dt.hour), 2) \o zfill(str(dt.minute), 2)

\* one minute later (the model's runs stay within one month)
NextMinute(dt) ==
    IF dt.minute < 59 THEN [dt EXCEPT !.minute = dt.minute + 1]
    ELSE IF dt.hour < 23 THEN [dt EXCEPT !.minute = 0, !.hour = dt.hour + 1]
    ELSE [dt EXCEPT !.minute = 0, !.hour = 0, !.day = dt.day + 1]

----------------------------------------------------------------------------
(* The functions of the script *)

get_blob_container_url(storage_account, container) ==
    "https://" \o storage_account \o ".blob.core.windows.net/" \o container

\* variant: the clock is read at every call
default_read_at_call == now

\* line 62: the default of datetimeobj is evaluated once, when the function is defined
default_datetimeobj == datetimeobj

generate_destination_container_name(source_container_name, extra_identifier, dt) ==
    strftime(dt) \o "-backup-" \o extra_identifier \o source_container_name

shorten_destination_container_name(container_name) == Slice(container_name, MAX_CONTAINER_CHARS)

----------------------------------------------------------------------------
(* The environment of a run: configuration, flags, clock, destination account *)

script_directory_path == "/opt/backup"

path_join(a, b) == a \o "/" \o b

HyphenName == Repeat("-0-", 14)
LongName == "customer-invoice-archive-2019-eu-west-blobs-01"

Descriptors ==
    { [storage_account |-> "alpha", container_name |-> "logs", storage_key |-> "alpha-key"],
      [storage_account |-> "beta", container_name |-> "logs", storage_key |-> "beta-key"],
      [storage_account |-> "alpha", container_name |-> LongName, storage_key |-> "alpha-key"],
      [storage_account |-> "beta", container_name |-> HyphenName, storage_key |-> "beta-key"] }

\* the configured lists: up to MaxContainers descriptors, no descriptor listed twice
SourceLists ==
    UNION { { sc \in [1..n -> Descriptors] : \A a, b \in 1..n : a # b => sc[a] # sc[b] } :
                n \in 0..MaxContainers }

Configs ==
    { [destination_storage_account |->
           [storage_account |-> "backups", storage_key |-> "backups-key"],
       relative_log_path |-> "log",
       source_containers |-> sc] : sc \in SourceLists }

RuntimeArgs ==
    { [quiet |-> FALSE, verbose |-> FALSE],
      [quiet |-> TRUE, verbose |-> FALSE],
      [quiet |-> FALSE, verbose |-> TRUE] }

StartTimes ==
    { [year |-> 2023, month |-> 3, day |-> 1, hour |-> 14, minute |-> 5] }

\* names a source container's resolution can probe: n = 0 is the plain name,
\* n > 0 the name with disambiguator n - 1
ProbeName(source_container_name, n, dt) ==
    shorten_destination_container_name(
        generate_destination_container_name(
            source_container_name,
            IF n = 0 THEN "" ELSE "-" \o str(n - 1) \o "-",
            dt))

ProbeNames(sc, dt) ==
    { ProbeName(sc[j].container_name, n, dt) : j \in DOMAIN sc, n \in 0..MaxProbe }

source_containers == config.source_containers
source_container == source_containers[i]

Say(lines) == IF runtime_args.verbose THEN stdout \o lines ELSE stdout

Init ==
    /\ pc = "check_azcopy"
    /\ runtime_args \in RuntimeArgs
    /\ config \in Configs
    /\ azcopy_available \in BOOLEAN
    /\ now \in StartTimes
    /\ ticks = 0
    /\ datetimeobj = now
    /\ containers \in { S \in SUBSET ProbeNames(config.source_containers, now) :
                            Cardinality(S) <= MaxExisting }
    /\ i = 0
    /\ destination_container_name = ""
    /\ destination_container_name_tiny = ""
    /\ count = 0
    /\ log_directory_path = ""
    /\ logpath = ""
    /\ files = {}
    /\ stdout = <<>>
    /\ exit_status = <<>>
    /\ error = ""
    /\ events = <<>>
    /\ generated_late = FALSE

----------------------------------------------------------------------------
(* main *)

\* an uncaught exception ends the interpreter with status 1
Raise(what) ==
    /\ pc' = "exited"
    /\ exit_status' = <<1>>
    /\ error' = what

\* variant: the abort message is printed but the script goes on
CheckAzcopy_no_exit ==
    /\ pc = "check_azcopy"
    /\ stdout' = (IF azcopy_available \/ runtime_args.quiet
                  THEN Say(<<"Checking if azcopy is available">>)
                  ELSE Say(<<"Checking if azcopy is available">>)
                           \o <<"azcopy not found", "Aborting">>)
    /\ pc' = "setup"
    /\ UNCHANGED <<runtime_args, config, azcopy_available, containers, now, ticks,
                   datetimeobj, i, destination_container_name,
                   destination_container_name_tiny, count, log_directory_path, logpath,
                   files, exit_status, error, events, generated_late>>

\* lines 95-108: make sure azcopy is available
CheckAzcopy ==
    /\ pc = "check_azcopy"
    /\ IF ~azcopy_available
       THEN /\ stdout' = (IF runtime_args.quiet THEN Say(<<"Checking if azcopy is available">>)
                          ELSE Say(<<"Checking if azcopy is available">>)
                                   \o <<"azcopy not found", "Aborting">>)
            /\ pc' = "exited"
            /\ exit_status' = <<1>>
            /\ error' = "azcopy not found"
       ELSE /\ stdout' = Say(<<"Checking if azcopy is available">>)
            /\ pc' = "setup"
            /\ UNCHANGED <<exit_status, error>>
    /\ UNCHANGED <<runtime_args, config, azcopy_available, containers, now, ticks,
                   datetimeobj, i, destination_container_name,
                   destination_container_name_tiny, count, log_directory_path, logpath,
                   files, events, generated_late>>

\* lines 110-140: load the configuration, make the log directory, build the blob service
Setup ==
    /\ pc = "setup"
    /\ stdout' = Say(<<"Loading YAML config file", "Verifying log directory path exists">>)
    /\ log_directory_path' = path_join(script_directory_path, config.relative_log_path)
    /\ pc' = "for"
    /\ UNCHANGED <<generated_late, runtime_args, config, azcopy_available, containers, now, ticks, datetimeobj, i,
                   destination_container_name, destination_container_name_tiny, count,
                   logpath, files, exit_status, error, events>>

\* lines 143-165: take the next source container and make its names
ForNext ==
    /\ pc = "for"
    /\ i < Len(source_containers)
    /\ i' = i + 1
    /\ LET name == generate_destination_container_name(
                       source_containers[i + 1].container_name, "", default_datetimeobj)
       IN /\ destination_container_name' = name
          /\ destination_container_name_tiny' = shorten_destination_container_name(name)
          /\ stdout' = Say(<<"Verifying that container "
                               \o shorten_destination_container_name(name)
                               \o " doesn't already exist">>)
    /\ count' = 0
    /\ pc' = "while"
    /\ generated_late' = (generated_late \/ now # datetimeobj)
    /\ UNCHANGED <<runtime_args, config, azcopy_available, containers, now, ticks, datetimeobj,
                   log_directory_path, logpath, files, exit_status, error, events>>

\* line 143, list exhausted: main returns and the script ends with status 0
ForDone ==
    /\ pc = "for"
    /\ i >= Len(source_containers)
    /\ pc' = "exited"
    /\ exit_status' = <<0>>
    /\ UNCHANGED <<generated_late, runtime_args, config, azcopy_available, containers, now, ticks, datetimeobj, i,
                   destination_container_name, destination_container_name_tiny, count,
                   log_directory_path, logpath, files, stdout, error, events>>

\* variant: the existence check is made on the name before shortening
exists_argument_unshortened == destination_container_name

\* line 168: the name whose existence is checked
exists_argument == destination_container_name_tiny

\* variant: the disambiguators start at 1
extra_identifier_from_one(c) == "-" \o str(c + 1) \o "-"

\* line 174: the disambiguator of a retry
extra_identifier_of(c) == "-" \o str(c) \o "-"

\* variant: the count is never incremented
increment_forgotten(c) == c

\* line 183
increment(c) == c + 1

\* lines 167-183, the existence check answers true: make a new name and check again
ExistsTrue ==
    /\ pc = "while"
    /\ exists_argument \in containers
    /\ events' = Append(events, [op |-> "exists", k |-> i, name |-> exists_argument,
                                 result |-> TRUE, raised |-> FALSE])
    /\ LET tiny == shorten_destination_container_name(
                       generate_destination_container_name(
                           source_container.container_name,
                           extra_identifier_of(count),
                           default_datetimeobj))
       IN /\ destination_container_name_tiny' = tiny
          /\ stdout' = Say(<<"It does",
                             "Verifying that container " \o tiny \o " doesn't already exist">>)
    /\ count' = increment(count)
    /\ generated_late' = (generated_late \/ now # datetimeobj)
    /\ UNCHANGED <<pc, runtime_args, config, azcopy_available, containers, now, ticks,
                   datetimeobj, i, destination_container_name, log_directory_path, logpath,
                   files, exit_status, error>>

\* line 167, the existence check answers false: the loop ends
ExistsFalse ==
    /\ pc = "while"
    /\ exists_argument \notin containers
    /\ events' = Append(events, [op |-> "exists", k |-> i, name |-> exists_argument,
                                 result |-> FALSE, raised |-> FALSE])
    /\ pc' = "create"
    /\ UNCHANGED <<generated_late, runtime_args, config, azcopy_available, containers, now, ticks,
                   datetimeobj, i, destination_container_name,
                   destination_container_name_tiny, count, log_directory_path, logpath,
                   files, stdout, exit_status, error>>

\* line 167, the existence check fails (network, authentication): nothing catches it
ExistsRaises ==
    /\ pc = "while"
    /\ events' = Append(events, [op |-> "exists", k |-> i, name |-> exists_argument,
                                 result |-> FALSE, raised |-> TRUE])
    /\ Raise("exists failed")
    /\ UNCHANGED <<generated_late, runtime_args, config, azcopy_available, containers, now, ticks,
                   datetimeobj, i, destination_container_name,
                   destination_container_name_tiny, count, log_directory_path, logpath,
                   files, stdout>>

\* lines 185-190: make the container
CreateContainer ==
    /\ pc = "create"
    /\ stdout' = Say(<<"Creating container " \o destination_container_name_tiny>>)
    /\ events' = Append(events, [op |-> "create_container", k |-> i,
                                 name |-> destination_container_name_tiny,
                                 existed |-> destination_container_name_tiny \in containers,
                                 raised |-> FALSE])
    /\ containers' = containers \cup {destination_container_name_tiny}
    /\ pc' = "open"
    /\ UNCHANGED <<generated_late, runtime_args, config, azcopy_available, now, ticks, datetimeobj, i,
                   destination_container_name, destination_container_name_tiny, count,
                   log_directory_path, logpath, files, exit_status, error>>

\* variant: the failure is caught and the loop continues with the next source container
CreateContainerRaises_continue ==
    /\ pc = "create"
    /\ stdout' = Say(<<"Creating container " \o destination_container_name_tiny>>)
    /\ events' = Append(events, [op |-> "create_container", k |-> i,
                                 name |-> destination_container_name_tiny,
                                 existed |-> destination_container_name_tiny \in containers,
                                 raised |-> TRUE])
    /\ pc' = "for"
    /\ UNCHANGED <<generated_late, runtime_args, config, azcopy_available, containers, now,
                   ticks, datetimeobj, i, destination_container_name,
                   destination_container_name_tiny, count, log_directory_path, logpath,
                   files, exit_status, error>>

\* lines 189-190, the creation fails (remote error, permissions): nothing catches it
CreateContainerRaises ==
    /\ pc = "create"
    /\ stdout' = Say(<<"Creating container " \o destination_container_name_tiny>>)
    /\ events' = Append(events, [op |-> "create_container", k |-> i,
                                 name |-> destination_container_name_tiny,
                                 existed |-> destination_container_name_tiny \in containers,
                                 raised |-> TRUE])
    /\ Raise("create_container failed")
    /\ UNCHANGED <<generated_late, runtime_args, config, azcopy_available, containers, now, ticks,
                   datetimeobj, i, destination_container_name,
                   destination_container_name_tiny, count, log_directory_path, logpath,
                   files>>

\* lines 192-196: open the log file for writing, which truncates it
OpenLog ==
    /\ pc = "open"
    /\ LET path == path_join(log_directory_path, destination_container_name \o "-log.txt")
       IN /\ logpath' = path
          /\ files' = { f \in files : f[1] # path }
          /\ events' = Append(events, [op |-> "open", k |-> i, path |-> path])
    /\ pc' = "azcopy"
    /\ UNCHANGED <<generated_late, runtime_args, config, azcopy_available, containers, now, ticks,
                   datetimeobj, i, destination_container_name,
                   destination_container_name_tiny, count, log_directory_path, stdout,
                   exit_status, error>>

\* lines 199-214: the command line of the copy
azcopy_argv ==
    << "azcopy",
       "--source",
       get_blob_container_url(source_container.storage_account,
                              source_container.container_name),
       "--source-key",
       config.destination_storage_account.storage_key,
       "--destination",
       get_blob_container_url(config.destination_storage_account.storage_account,
                              destination_container_name_tiny),
       "--dest-key",
       source_container.storage_key,
       "--recursive",
       "--quiet",
       "--verbose" >>

\* variant: azcopy is started and not waited for
RunAzcopy_no_wait ==
    /\ pc = "azcopy"
    /\ events' = events \o << [op |-> "azcopy", k |-> i, argv |-> azcopy_argv],
                               [op |-> "close", k |-> i, path |-> logpath] >>
    /\ files' = files \cup {<<logpath, i>>}
    /\ pc' = "for"
    /\ UNCHANGED <<generated_late, runtime_args, config, azcopy_available, containers, now,
                   ticks, datetimeobj, i, destination_container_name,
                   destination_container_name_tiny, count, log_directory_path, logpath,
                   stdout, exit_status, error>>

\* lines 198-217: subprocess.run starts azcopy with its output going to the log file
RunAzcopy ==
    /\ pc = "azcopy"
    /\ events' = Append(events, [op |-> "azcopy", k |-> i, argv |-> azcopy_argv])
    /\ pc' = "wait"
    /\ UNCHANGED <<generated_late, runtime_args, config, azcopy_available, containers, now, ticks,
                   datetimeobj, i, destination_container_name,
                   destination_container_name_tiny, count, log_directory_path, logpath,
                   files, stdout, exit_status, error>>

\* variant: subprocess.run(..., check=True), a non-zero exit status raises
AzcopyExits_check ==
    /\ pc = "wait"
    /\ \E returncode \in {0, 1} :
          /\ events' = events \o << [op |-> "azcopy_exit", k |-> i, returncode |-> returncode],
                                    [op |-> "close", k |-> i, path |-> logpath] >>
          /\ IF returncode = 0
             THEN pc' = "for" /\ UNCHANGED <<exit_status, error>>
             ELSE Raise("azcopy failed")
    /\ files' = files \cup {<<logpath, i>>}
    /\ UNCHANGED <<generated_late, runtime_args, config, azcopy_available, containers, now,
                   ticks, datetimeobj, i, destination_container_name,
                   destination_container_name_tiny, count, log_directory_path, logpath,
                   stdout>>

\* lines 196-217: azcopy exits, subprocess.run returns, the with block closes the log
AzcopyExits ==
    /\ pc = "wait"
    /\ \E returncode \in {0, 1} :
          events' = events \o << [op |-> "azcopy_exit", k |-> i, returncode |-> returncode],
                                 [op |-> "close", k |-> i, path |-> logpath] >>
    /\ files' = files \cup {<<logpath, i>>}
    /\ pc' = "for"
    /\ UNCHANGED <<generated_late, runtime_args, config, azcopy_available, containers, now, ticks,
                   datetimeobj, i, destination_container_name,
                   destination_container_name_tiny, count, log_directory_path, logpath,
                   stdout, exit_status, error>>

\* the wall clock advances while the script runs
Tick ==
    /\ pc # "exited"
    /\ ticks < MaxTicks
    /\ now' = NextMinute(now)
    /\ ticks' = ticks + 1
    /\ UNCHANGED <<generated_late, pc, runtime_args, config, azcopy_available, containers, datetimeobj, i,
                   destination_container_name, destination_container_name_tiny, count,
                   log_directory_path, logpath, files, stdout, exit_status, error, events>>

Next ==
    \/ CheckAzcopy
    \/ Setup
    \/ ForNext
    \/ ForDone
    \/ ExistsTrue
    \/ ExistsFalse
    \/ ExistsRaises
    \/ CreateContainer
    \/ CreateContainerRaises
    \/ OpenLog
    \/ RunAzcopy
    \/ AzcopyExits
    \/ Tick

Spec == Init /\ [][Next]_vars

----------------------------------------------------------------------------
(* Reading the history *)

Ops(op) == { j \in DOMAIN events : events[j].op = op }

\* the existence checks made for the k-th source container, in order
ExistsOf(k) ==
    LET ForK(e) == e.op = "exists" /\ e.k = k
    IN SelectSeq(events, ForK)

ArgAfter(argv, flag) == argv[(CHOOSE j \in DOMAIN argv : argv[j] = flag) + 1]

NoRemoteFailure ==
    \A j \in Ops("exists") \cup Ops("create_container") : ~events[j].raised

\* the loop of lines 167-183 is running or has just ended for source container i
Resolving == pc \in {"while", "create"}

\* existence checks made so far for source container i, plus the one the loop is about to make
ChecksCommitted == Len(ExistsOf(i)) + (IF pc = "while" THEN 1 ELSE 0)

NoLeadingHyphen(s) == Slice(s, 1) # "-"

----------------------------------------------------------------------------
(* Properties *)

\* C1: this script being the only writer of the destination account, every call of
\* create_container is made with a name that no container of the account has at that
\* moment, whether from before the run or made earlier in the run.
CreatedNamesAreFresh ==
    \A j \in Ops("create_container") : ~events[j].existed

\* a second source container collided with the container made for the first one and
\* went on to create its own
FreshAfterCollisionInRun ==
    \E a, b \in Ops("create_container"), c \in Ops("exists") :
        /\ a < c /\ c < b
        /\ events[a].k = 1 /\ events[b].k = 2 /\ events[c].k = 2
        /\ ~events[a].raised /\ ~events[b].raised
        /\ events[c].result /\ events[c].name = events[a].name

\* C2 as stated: for every source name and every fixed set S of existing names, the
\* loop ends with a name outside S after at most |S| + 1 existence checks.
ResolverWithinBoundForEveryName ==
    Resolving =>
        /\ ChecksCommitted <= Cardinality(containers) + 1
        /\ pc = "create" => destination_container_name_tiny \notin containers

\* C2 amended: for every source name that does not begin with "-" (its plain
\* candidate then differs from every disambiguated one), the loop ends with a name
\* outside S after at most |S| + 1 existence checks.
ResolverWithinBoundWithoutLeadingHyphen ==
    (Resolving /\ NoLeadingHyphen(source_container.container_name)) =>
        /\ ChecksCommitted <= Cardinality(containers) + 1
        /\ pc = "create" => destination_container_name_tiny \notin containers

\* the bound is met: two existing names, three checks, the loop has ended
ResolverBoundReached ==
    /\ pc = "create"
    /\ NoLeadingHyphen(source_container.container_name)
    /\ Cardinality(containers) = 2
    /\ Len(ExistsOf(i)) = 3

\* C3: in every invocation of azcopy, --source-key is the key of the source container
\* whose URL is --source and --dest-key is the key of the destination account whose
\* URL is --destination.
CopyKeysMatchAccounts ==
    \A j \in Ops("azcopy") :
        LET argv == events[j].argv
            src == source_containers[events[j].k]
            dst == config.destination_storage_account
        IN /\ ArgAfter(argv, "--source")
                  = get_blob_container_url(src.storage_account, src.container_name)
           /\ ArgAfter(argv, "--source-key") = src.storage_key
           /\ \E name \in { events[c].name : c \in Ops("create_container") } :
                  ArgAfter(argv, "--destination")
                      = get_blob_container_url(dst.storage_account, name)
           /\ ArgAfter(argv, "--dest-key") = dst.storage_key

\* C4: when azcopy is not available the run ends with status 1 and makes no existence
\* check, creates no container, opens no log file and starts no copy, whatever the
\* configuration and the flags.
PreflightFailureTouchesNothing ==
    ~azcopy_available =>
        /\ events = <<>>
        /\ files = {}
        /\ pc \in {"check_azcopy", "exited"}
        /\ pc = "exited" => exit_status = <<1>>

\* the run was aborted with source containers configured and the verbose flag set
PreflightAbortedRun ==
    /\ ~azcopy_available
    /\ pc = "exited"
    /\ Len(source_containers) = 2
    /\ runtime_args.verbose

\* C5 as stated: after a failed container creation the source containers that come
\* later in the configuration are still processed (container created, copy run).
LaterContainersStillProcessed ==
    pc = "exited" =>
        \A j \in Ops("create_container") :
            events[j].raised =>
                \A later \in (events[j].k + 1)..Len(source_containers) :
                    /\ \E c \in Ops("create_container") : events[c].k = later
                    /\ \E c \in Ops("azcopy") : events[c].k = later

\* C5 amended: a failed container creation is not retried and ends the whole run with
\* status 1; no later source container is processed.
CreateFailureEndsRun ==
    \A j \in Ops("create_container") :
        events[j].raised =>
            /\ j = Len(events)
            /\ pc = "exited"
            /\ exit_status = <<1>>
            /\ i = events[j].k
            /\ \A c \in Ops("create_container") : events[c].k = events[j].k => c = j

\* the creation for the first of two source containers failed
FirstOfTwoCreationsFailed ==
    /\ Len(source_containers) = 2
    /\ \E j \in Ops("create_container") : events[j].raised /\ events[j].k = 1

\* C6: no log file path is opened for writing more than once in a run, so no source
\* container's log is truncated by a later one.
NoLogPathOpenedTwice ==
    \A a, b \in Ops("open") : a # b => events[a].path # events[b].path

\* C7: per source container the events are existence checks, one creation, log open,
\* one copy that is waited for, log close, in this order; source containers are taken
\* in configuration order and nothing of the next happens before the close of the last.
Follows(p, e) ==
    \/ p.op = "exists" /\ ~p.raised /\ p.result /\ e.op = "exists" /\ e.k = p.k
    \/ p.op = "exists" /\ ~p.raised /\ ~p.result /\ e.op = "create_container" /\ e.k = p.k
    \/ p.op = "create_container" /\ ~p.raised /\ e.op = "open" /\ e.k = p.k
    \/ p.op = "open" /\ e.op = "azcopy" /\ e.k = p.k
    \/ p.op = "azcopy" /\ e.op = "azcopy_exit" /\ e.k = p.k
    \/ p.op = "azcopy_exit" /\ e.op = "close" /\ e.k = p.k
    \/ p.op = "close" /\ e.op = "exists" /\ e.k = p.k + 1

StrictlySequential ==
    /\ events # <<>> => events[1].op = "exists" /\ events[1].k = 1
    /\ \A j \in 2..Len(events) : Follows(events[j - 1], events[j])
    /\ \A j \in DOMAIN events :
           LET e == events[j]
           IN /\ e.k \in 1..i
              /\ e.op = "azcopy" =>
                     ArgAfter(e.argv, "--source")
                         = get_blob_container_url(source_containers[e.k].storage_account,
                                                  source_containers[e.k].container_name)
              /\ e.op = "close" => events[j - 3].op = "open" /\ events[j - 3].path = e.path
    /\ pc = "wait" => events[Len(events)].op = "azcopy"

\* two source containers were backed up one after the other, the second after a retry
TwoContainersInSequence ==
    /\ pc = "exited"
    /\ Len(source_containers) = 2
    /\ events # <<>>
    /\ events[Len(events)].op = "close" /\ events[Len(events)].k = 2
    /\ Len(ExistsOf(2)) >= 2

\* C8: a copy that exits with a non-zero status changes nothing of the run: the log is
\* closed, the next source container is processed, and with azcopy found and no remote
\* call failing the script ends with status 0.
CopyFailureTolerated ==
    /\ \A j \in Ops("azcopy_exit") :
           /\ j < Len(events)
           /\ events[j + 1].op = "close" /\ events[j + 1].k = events[j].k
    /\ (pc = "exited" /\ azcopy_available /\ NoRemoteFailure) =>
           /\ exit_status = <<0>>
           /\ \A k \in 1..Len(source_containers) :
                  \E j \in Ops("azcopy_exit") : events[j].k = k

\* the copy of the first of two source containers failed and the run ended with status 0
FailedCopyThenSuccess ==
    /\ pc = "exited"
    /\ exit_status = <<0>>
    /\ Len(source_containers) = 2
    /\ \E j \in Ops("azcopy_exit") : events[j].k = 1 /\ events[j].returncode # 0

\* C9: all names generated in a run, untruncated, first candidate and retries, for
\* every source container, carry the timestamp taken at process start, also when the
\* clock passes minute boundaries between the generations.
StartStamps == {"20230301-1405"}

StampWidth == Len("YYYYMMDD-HHMM")

\* the timestamp a generated name or a log path carries
StampOf(e) ==
    IF e.op = "open"
    THEN SubSeq(e.path, Len(log_directory_path) + 2, Len(log_directory_path) + 1 + StampWidth)
    ELSE Slice(e.name, StampWidth)

OneTimestampPerRun ==
    LET stamp == strftime(datetimeobj)
    IN /\ stamp \in StartStamps
       /\ \A j \in DOMAIN events :
              events[j].op \in {"exists", "create_container", "open"}
                  => StampOf(events[j]) = stamp
       /\ i > 0 => /\ Slice(destination_container_name, StampWidth) = stamp
                   /\ Slice(destination_container_name_tiny, StampWidth) = stamp

\* names were generated after the clock had left the starting minute, and the log of
\* the second source container has been opened
NamesGeneratedAcrossMinutes ==
    /\ generated_late
    /\ \E j \in Ops("open") : events[j].k = 2

\* C10: the names probed for a source name s are the first 63 characters of
\* <timestamp>-backup-s, then of <timestamp>-backup--n-s for n = 0, 1, 2, ...; the
\* name created is the first of them for which the existence check is false.
ExpectedProbe(stamp, s, m) ==
    Slice(stamp \o "-backup-" \o (IF m = 1 THEN "" ELSE "-" \o str(m - 2) \o "-") \o s, 63)

====
